---- MODULE Spec2Model ----
(***************************************************************************)
(* Model of the wedding-invitation backend: the invitations, checkins,     *)
(* messages and categories tables and the route handlers that read and     *)
(* write them.  Two copies of the invitation router exist in the source:   *)
(* variant "A" (unnamed/part_001) and variant "B" (the second half of      *)
(* routes/protectedRoute.js); the guest router (routes/guest.js) is "G".   *)
(* Columns that no handler branches on (from, phone, name, qrcode,         *)
(* created_at) are not carried in the rows.                                *)
(***************************************************************************)
EXTENDS Integers, Sequences, FiniteSets, TLC

\* SQL NULL / JS null or undefined in a numeric position.
NULL == -1
\* JS NaN, the result of Number() on a non-numeric string.
NaN == -2
\* SQL NULL / JS undefined in a string position.
NullStr == "<null>"

\* Bounds of the model: invitations created under the check-in
\* specification, readings of the clock, scans of one invitation, the
\* invitations, messages and categories created under the store specification,
\* and the invitations created under the whole-life specification.
MaxInv == 2
MaxTime == 2
MaxScan == 2
MaxRows == 2
MaxMsg == 1
MaxCat == 1
MaxLife == 1

\* build: which copy of the invitation router the deployed application mounts.
\* scans: history, the number of check-in requests answered 200 per invitation.
\* cookies: the cookies the client sends with its next request.
\* captions: the caption table.
VARIABLES build, invitations, checkins, messages, categories, nextId, now, resp,
          procs, scans, cookies, captions

vars == <<build, invitations, checkins, messages, categories, nextId, now, resp,
          procs, scans, cookies, captions>>

Variants == {"A", "B"}
RsvpEnum == {"Belum Konfirmasi", "Hadir", "Tidak Hadir"}
TypeEnum == {"digital", "cetak"}

----------------------------------------------------------------------------
\* Request-body values: absent, a JSON number, a numeric string, the empty
\* string, a JSON boolean, or a non-numeric string.
Absent == [k |-> "absent", v |-> 0]
Num(n) == [k |-> "num", v |-> n]
Str(n) == [k |-> "str", v |-> n]
Empty == [k |-> "empty", v |-> 0]
True == [k |-> "bool", v |-> 1]
False == [k |-> "bool", v |-> 0]
Junk == [k |-> "junk", v |-> 0]
\* A JSON null: == null holds of it as of an absent field, === undefined does
\* not.  Only the delivery-status route, which tests === undefined, is given it.
Null == [k |-> "null", v |-> 0]

\* JS Number(x) for a non-nullish x: Number("") is 0, Number("abc") is NaN.
ToNumber(x) ==
  CASE x.k = "num" -> x.v
    [] x.k = "str" -> x.v
    [] x.k = "empty" -> 0
    [] x.k = "bool" -> x.v
    [] OTHER -> NaN

\* JS `a ?? b`.
Nullish(a, b) == IF a = NULL THEN b ELSE a
NullishStr(a, b) == IF a = NullStr THEN b ELSE a

\* required(v): v !== undefined && v !== null && v !== ''
required(s) == s # NullStr /\ s # ""
\* An isEnum that accepts every value.
IsEnumAny(s, allowed) == TRUE

isEnum(s, allowed) == s \in allowed

----------------------------------------------------------------------------
\* Credentials.  A token is the claims jwt.sign put in it and whether
\* jwt.verify accepts it against JWT_SECRET (signature and expiry).
NoToken == [id |-> 0, username |-> NullStr, role |-> NullStr, ok |-> FALSE]
CookieNames == {"token_client", "token_user"}
NoCookies == [c \in CookieNames |-> NoToken]

----------------------------------------------------------------------------
\* The response of the last completed request.
NoResp ==
  [op |-> "none", status |-> 0, first |-> FALSE, qty_recorded |-> NULL,
   scan_count |-> NULL, rsvp_status |-> NullStr]

Reply(op, status) == [NoResp EXCEPT !.op = op, !.status = status]

\* Requests in flight, for the specifications that interleave the handlers at
\* their awaits: the handler's position and its local variables.
Procs == {1, 2}
Idle == [pc |-> "idle", name |-> NullStr, qty |-> NULL, type |-> NullStr,
         attempt |-> 0, slug |-> NullStr]

\* The ids an invitation can take under any of the specifications.
InvIds == 1 .. (MaxInv + MaxRows)

Init ==
  /\ build \in Variants
  /\ invitations = {}
  /\ checkins = {}
  /\ messages = {}
  /\ categories = {}
  /\ nextId = [inv |-> 1, ck |-> 1, msg |-> 1, cat |-> 1, cap |-> 1]
  /\ now = 1
  /\ resp = NoResp
  /\ procs = [p \in Procs |-> Idle]
  /\ scans = [i \in InvIds |-> 0]
  /\ cookies = NoCookies
  /\ captions = {}

\* NOW() advances between requests.
Tick ==
  /\ now < MaxTime
  /\ now' = now + 1
  /\ UNCHANGED <<build, cookies, captions, scans, invitations, checkins, messages, categories, nextId, resp,
               procs>>

----------------------------------------------------------------------------
\* Slug generation.

\* Bound on the random draws: each generator draws from MaxRand candidates.
MaxRand == 2

\* Math.floor(100000 + Math.random() * 900000): the first MaxRand values.
RandA == 100000 .. (100000 + MaxRand - 1)
\* Math.floor(1000 + Math.random() * 9000): the first MaxRand values.
RandB == 1000 .. (1000 + MaxRand - 1)

\* slugify(name, {lower: true, strict: true}) on the names of the model.
slugify(name) ==
  CASE name = "Ani" -> "ani"
    [] name = "Budi S" -> "budi-s"
    [] name = "guest" -> "guest"
    [] OTHER -> "x"

\* Variant B: base = slugify(name || 'guest').
SlugBase(name) == slugify(IF name = NullStr \/ name = "" THEN "guest" ELSE name)

\* The candidate a generator builds from one random draw.
CandidateA(r) == ToString(r)
CandidateB(name, r) == SlugBase(name) \o "-" \o ToString(r)

Candidates(v, name) ==
  IF v = "A" THEN {CandidateA(r) : r \in RandA}
  ELSE {CandidateB(name, r) : r \in RandB}

\* SELECT id FROM invitations WHERE slug = ?  (rows.length > 0)
SlugExists(tbl, slug) == \E r \in tbl : r.slug = slug

\* maxAttempts of the bounded generator.
maxAttempts == 5

\* The results generateUniqueSlug can return when it runs against one table
\* state: a candidate whose query found no row.
SlugResults(v, name, tbl) == {s \in Candidates(v, name) : ~SlugExists(tbl, s)}

\* Variant B throws when maxAttempts draws all collide, which needs a taken
\* candidate to draw; variant A never throws.
SlugCanFail(v, name, tbl) ==
  v = "B" /\ \E s \in Candidates(v, name) : SlugExists(tbl, s)

----------------------------------------------------------------------------
\* Rows.

\* An INSERT that fills real_qty with the invited quantity.
NewInvitationRealIsQty(id, category, qty, type, slug) ==
  [id |-> id, category |-> category, qty |-> qty, type |-> type, slug |-> slug,
   rsvp_status |-> "Belum Konfirmasi", checked_in |-> FALSE,
   checked_in_at |-> NULL, real_qty |-> qty,
   is_sent |-> FALSE, is_copied |-> FALSE, status_pengiriman |-> NullStr]

\* INSERT INTO invitations (from, name, category, phone, qty, type, slug, qrcode):
\* the other columns take the store's defaults.
NewInvitation(id, category, qty, type, slug) ==
  [id |-> id, category |-> category, qty |-> qty, type |-> type, slug |-> slug,
   rsvp_status |-> "Belum Konfirmasi", checked_in |-> FALSE,
   checked_in_at |-> NULL, real_qty |-> NULL,
   is_sent |-> FALSE, is_copied |-> FALSE, status_pengiriman |-> NullStr]

\* x == null ? null : Number(x)
NumberOrNull(x) == IF x.k = "absent" THEN NULL ELSE ToNumber(x)

\* POST / of the invitation router (both variants).
Create(v, name, category, qty, type) ==
  /\ UNCHANGED <<build, cookies, captions, scans, checkins, messages, categories, now, procs>>
  /\ IF ~required(name) THEN
       /\ resp' = Reply("create", 400)
       /\ UNCHANGED <<invitations, nextId>>
     ELSE IF ~required(type) \/ ~isEnum(type, TypeEnum) THEN
       /\ resp' = Reply("create", 400)
       /\ UNCHANGED <<invitations, nextId>>
     ELSE
       LET qtyVal == NumberOrNull(qty)
           catVal == NumberOrNull(category)
       IN \/ /\ SlugCanFail(v, name, invitations)
             /\ resp' = Reply("create", 500)
             /\ UNCHANGED <<invitations, nextId>>
          \/ \E slug \in SlugResults(v, name, invitations) :
               IF qtyVal = NaN \/ catVal = NaN THEN
                 \* the INSERT is rejected by the store
                 /\ resp' = Reply("create", 500)
                 /\ UNCHANGED <<invitations, nextId>>
               ELSE
                 /\ invitations' = invitations \cup
                      {NewInvitation(nextId.inv, catVal, qtyVal, type, slug)}
                 /\ nextId' = [nextId EXCEPT !.inv = @ + 1]
                 /\ resp' = Reply("create", 201)

----------------------------------------------------------------------------
\* Manual RSVP: PATCH /:slug/kehadiran.

\* JumlahReal converting the empty string like any other value (Number('')).
JumlahRealEmptyIsZero(v, rsvp_status, jumlah_real) ==
  IF v = "A" /\ rsvp_status = "Tidak Hadir" THEN 0
  ELSE IF jumlah_real.k = "absent" THEN NULL
  ELSE ToNumber(jumlah_real)

\* The real_qty the handler binds into its UPDATE.  Variant A forces 0 for
\* 'Tidak Hadir'; variant B converts jumlah_real whatever the status.
JumlahReal(v, rsvp_status, jumlah_real) ==
  IF v = "A" /\ rsvp_status = "Tidak Hadir" THEN 0
  ELSE IF jumlah_real.k = "absent" \/ jumlah_real.k = "empty" THEN NULL
  ELSE ToNumber(jumlah_real)

\* SetKehadiran as an UPDATE that also clears the check-in state of the row.
SetKehadiranResets(tbl, slug, rsvp_status, real_qty) ==
  {IF r.slug = slug
     THEN [r EXCEPT !.rsvp_status = rsvp_status, !.real_qty = real_qty,
                    !.checked_in = FALSE, !.checked_in_at = NULL]
     ELSE r : r \in tbl}

\* UPDATE invitations SET rsvp_status = ?, real_qty = ? WHERE slug = ?
SetKehadiran(tbl, slug, rsvp_status, real_qty) ==
  {IF r.slug = slug
     THEN [r EXCEPT !.rsvp_status = rsvp_status, !.real_qty = real_qty]
     ELSE r : r \in tbl}

Kehadiran(v, slug, rsvp_status, jumlah_real) ==
  /\ UNCHANGED <<build, cookies, captions, scans, checkins, messages, categories, nextId, now, procs>>
  /\ IF ~required(rsvp_status) \/ ~isEnum(rsvp_status, RsvpEnum) THEN
       /\ resp' = Reply("kehadiran", 400)
       /\ UNCHANGED invitations
     ELSE
       LET jr == JumlahReal(v, rsvp_status, jumlah_real)
       IN IF jr = NaN THEN
            \* the UPDATE is rejected by the store
            /\ resp' = Reply("kehadiran", 500)
            /\ UNCHANGED invitations
          ELSE IF ~SlugExists(invitations, slug) THEN
            \* affectedRows = 0
            /\ resp' = Reply("kehadiran", 404)
            /\ UNCHANGED invitations
          ELSE
            /\ invitations' = SetKehadiran(invitations, slug, rsvp_status, jr)
            /\ resp' = [Reply("kehadiran", 200) EXCEPT
                          !.rsvp_status = rsvp_status]

----------------------------------------------------------------------------
\* QR check-in: PATCH /checkin/:slug.

\* QtyToUse with the two fallbacks in the wrong order.
QtyToUseInvitedFirst(inv, checked_in_qty) ==
  IF checked_in_qty.k # "absent" THEN ToNumber(checked_in_qty)
  ELSE IF inv.qty # NULL THEN inv.qty
  ELSE inv.real_qty

\* checked_in_qty != null ? Number(checked_in_qty)
\*                        : (inv.real_qty != null ? inv.real_qty : inv.qty)
QtyToUse(inv, checked_in_qty) ==
  IF checked_in_qty.k # "absent" THEN ToNumber(checked_in_qty)
  ELSE IF inv.real_qty # NULL THEN inv.real_qty
  ELSE inv.qty

\* LogRows as a lookup that never finds the row.
LogRowsNone(tbl, invId) == {c \in tbl : FALSE}

\* SELECT ... FROM checkins WHERE invitation_id = ?
LogRows(tbl, invId) == {c \in tbl : c.invitation_id = invId}

\* LogInsert as INSERT ... ON DUPLICATE KEY UPDATE scan_count = scan_count + 1
\* under a unique key on invitation_id.
LogInsertUpsert(tbl, id, inv, qtyToUse, device_note) ==
  IF \E c \in tbl : c.invitation_id = inv.id
    THEN {IF c.invitation_id = inv.id
            THEN [c EXCEPT !.scan_count = @ + 1,
                           !.checked_in_qty = Nullish(qtyToUse, 0)]
            ELSE c : c \in tbl}
    ELSE tbl \cup {[id |-> id, invitation_id |-> inv.id,
                    checked_in_qty |-> Nullish(qtyToUse, 0), scan_count |-> 1,
                    device_note |-> device_note]}

\* INSERT INTO checkins (invitation_id, checked_in_qty, scan_count, device_note)
LogInsert(tbl, id, inv, qtyToUse, device_note) ==
  tbl \cup {[id |-> id, invitation_id |-> inv.id,
             checked_in_qty |-> Nullish(qtyToUse, 0), scan_count |-> 1,
             device_note |-> device_note]}

\* LogUpdate without the increment of scan_count.
LogUpdateNoIncrement(v, tbl, c, qtyToUse, device_note) ==
  {IF x.id = c.id
     THEN [x EXCEPT !.checked_in_qty = Nullish(qtyToUse, 0),
                    !.device_note = device_note]
     ELSE x : x \in tbl}

\* UPDATE checkins SET checked_in_qty = ?, scan_count = ?, device_note = ?
\* WHERE id = ?.  Variant B falls back to the row's previous values.
LogUpdate(v, tbl, c, qtyToUse, device_note) ==
  {IF x.id = c.id
     THEN [x EXCEPT
             !.checked_in_qty =
               IF v = "A" THEN Nullish(qtyToUse, 0)
               ELSE Nullish(qtyToUse, Nullish(c.checked_in_qty, 0)),
             !.scan_count = c.scan_count + 1,
             !.device_note =
               IF v = "A" THEN device_note
               ELSE NullishStr(device_note, c.device_note)]
     ELSE x : x \in tbl}

\* COALESCE(?, real_qty, qty) evaluated on the row being updated.
CoalesceRealQty(qtyToUse, r) ==
  IF qtyToUse # NULL THEN qtyToUse
  ELSE IF r.real_qty # NULL THEN r.real_qty
  ELSE r.qty

\* InvCheckin as the earlier revision of the handler had it: the first scan
\* also sets rsvp_status = 'Hadir'.
InvCheckinSetsHadir(tbl, inv, qtyToUse, t) ==
  {IF r.id = inv.id
     THEN IF ~inv.checked_in
            THEN [r EXCEPT !.checked_in = TRUE, !.checked_in_at = t,
                           !.real_qty = CoalesceRealQty(qtyToUse, r),
                           !.rsvp_status = "Hadir"]
            ELSE [r EXCEPT !.checked_in_at = t]
     ELSE r : r \in tbl}

\* InvCheckin running the first-scan UPDATE on every scan.
InvCheckinAlwaysFirst(tbl, inv, qtyToUse, t) ==
  {IF r.id = inv.id
     THEN [r EXCEPT !.checked_in = TRUE, !.checked_in_at = t,
                    !.real_qty = CoalesceRealQty(qtyToUse, r)]
     ELSE r : r \in tbl}

\* The UPDATE of the invitation row, chosen by the checked_in flag read at
\* the start of the request.
InvCheckin(tbl, inv, qtyToUse, t) ==
  {IF r.id = inv.id
     THEN IF ~inv.checked_in
            THEN [r EXCEPT !.checked_in = TRUE, !.checked_in_at = t,
                           !.real_qty = CoalesceRealQty(qtyToUse, r)]
            ELSE [r EXCEPT !.checked_in_at = t]
     ELSE r : r \in tbl}

\* CheckinNotFound as an upsert: an unknown slug gets an invitation row.
CheckinNotFoundInserts(slug) ==
  /\ resp' = Reply("checkin", 404)
  /\ invitations' = invitations \cup
       {NewInvitation(nextId.inv, NULL, NULL, "digital", slug)}
  /\ nextId' = [nextId EXCEPT !.inv = @ + 1]
  /\ UNCHANGED <<checkins, scans>>

\* if (!rows.length) return res.status(404)
CheckinNotFound(slug) ==
  /\ resp' = Reply("checkin", 404)
  /\ UNCHANGED <<invitations, checkins, nextId, scans>>

Checkin(v, slug, checked_in_qty, device_note) ==
  /\ UNCHANGED <<build, cookies, captions, messages, categories, now, procs>>
  /\ IF ~SlugExists(invitations, slug) THEN
       CheckinNotFound(slug)
     ELSE
       \E inv \in {r \in invitations : r.slug = slug} :
         LET qtyToUse == QtyToUse(inv, checked_in_qty)
             cRows == LogRows(checkins, inv.id)
         IN IF qtyToUse = NaN THEN
              \* the first write is rejected by the store
              /\ resp' = Reply("checkin", 500)
              /\ UNCHANGED <<invitations, checkins, nextId, scans>>
            ELSE
              /\ IF cRows = {} THEN
                   /\ checkins' = LogInsert(checkins, nextId.ck, inv, qtyToUse,
                                            device_note)
                   /\ nextId' = [nextId EXCEPT !.ck = @ + 1]
                   /\ resp' = [Reply("checkin", 200) EXCEPT
                                 !.first = ~inv.checked_in,
                                 !.qty_recorded = qtyToUse, !.scan_count = 1,
                                 !.rsvp_status = IF v = "B" THEN inv.rsvp_status
                                                  ELSE NullStr]
                 ELSE
                   \E c \in cRows :
                     /\ c.scan_count < MaxScan
                     /\ checkins' = LogUpdate(v, checkins, c, qtyToUse,
                                              device_note)
                     /\ UNCHANGED nextId
                     /\ resp' = [Reply("checkin", 200) EXCEPT
                                     !.first = ~inv.checked_in,
                                   !.qty_recorded = qtyToUse,
                                   !.scan_count = c.scan_count + 1,
                                   !.rsvp_status = IF v = "B" THEN inv.rsvp_status
                                                  ELSE NullStr]
              /\ invitations' = InvCheckin(invitations, inv, qtyToUse, now)
              /\ scans' = [scans EXCEPT ![inv.id] = @ + 1]

----------------------------------------------------------------------------
\* The other writers of the invitations table.

\* A full update that rebuilds the row from the request, as a REPLACE would.
PutRowReplace(r, category, qty, type) ==
  NewInvitation(r.id, category, qty, type, r.slug)

\* A full update that also writes the slug column.
PutRowNewSlug(r, category, qty, type) ==
  [r EXCEPT !.category = category, !.qty = qty, !.type = type,
            !.slug = "slug-" \o ToString(r.id)]

\* SET `from`=?, name=?, category=?, phone=?, qty=?, type=? on one row.
PutRow(r, category, qty, type) ==
  [r EXCEPT !.category = category, !.qty = qty, !.type = type]

\* PUT /:id of variant A: name and type are validated, qty and category are
\* bound as given (x ?? null); the UPDATE matches by id and the reply is 200
\* whether or not a row matched.
Put(id, name, category, qty, type) ==
  /\ UNCHANGED <<build, cookies, captions, scans, checkins, messages, categories, nextId, now, procs>>
  /\ IF ~required(name) \/ ~required(type) \/ ~isEnum(type, TypeEnum) THEN
       /\ resp' = Reply("put", 400)
       /\ UNCHANGED invitations
     ELSE IF NumberOrNull(qty) = NaN \/ NumberOrNull(category) = NaN THEN
       /\ resp' = Reply("put", 500)
       /\ UNCHANGED invitations
     ELSE
       /\ invitations' =
            {IF r.id = id
               THEN PutRow(r, NumberOrNull(category), NumberOrNull(qty), type)
               ELSE r : r \in invitations}
       /\ resp' = Reply("put", 200)

\* JS !!x of a request-body flag.
Truthy(x) ==
  CASE x.k = "num" -> x.v # 0
    [] x.k = "str" -> TRUE
    [] x.k = "junk" -> TRUE
    [] x.k = "bool" -> x.v = 1
    [] OTHER -> FALSE

\* A delivery-status update that writes both flags, an absent one as 0.
StatusWritesBoth(slug, is_sent, is_copied) ==
  /\ UNCHANGED <<build, cookies, captions, scans, checkins, messages, categories, nextId, now, procs>>
  /\ IF is_sent.k = "absent" /\ is_copied.k = "absent" THEN
       /\ resp' = Reply("status", 400)
       /\ UNCHANGED invitations
     ELSE IF ~SlugExists(invitations, slug) THEN
       /\ resp' = Reply("status", 404)
       /\ UNCHANGED invitations
     ELSE
       /\ invitations' =
            {IF r.slug = slug
               THEN [r EXCEPT !.is_sent = Truthy(is_sent),
                              !.is_copied = Truthy(is_copied)]
               ELSE r : r \in invitations}
       /\ resp' = Reply("status", 200)

\* PATCH /:slug/status of variant A.  affectedRows counts the rows the WHERE
\* clause matched.
Status(slug, is_sent, is_copied) ==
  /\ UNCHANGED <<build, cookies, captions, scans, checkins, messages, categories, nextId, now, procs>>
  /\ IF is_sent.k = "absent" /\ is_copied.k = "absent" THEN
       /\ resp' = Reply("status", 400)
       /\ UNCHANGED invitations
     ELSE IF ~SlugExists(invitations, slug) THEN
       /\ resp' = Reply("status", 404)
       /\ UNCHANGED invitations
     ELSE
       /\ invitations' =
            {IF r.slug = slug
               THEN [r EXCEPT
                       !.is_sent = IF is_sent.k = "absent" THEN @
                                   ELSE Truthy(is_sent),
                       !.is_copied = IF is_copied.k = "absent" THEN @
                                     ELSE Truthy(is_copied)]
               ELSE r : r \in invitations}
       /\ resp' = Reply("status", 200)

\* The store's answer to a statement: the schema is not part of the source,
\* so a value outside a column's domain, or the removal of a row that other
\* rows refer to, may be accepted or rejected.
StoreAnswers == {"accept", "reject"}

\* POST / of the guest router: no slug is generated and type is not validated.
GuestCreate(name, category, qty, type, answer) ==
  /\ UNCHANGED <<build, cookies, captions, scans, checkins, messages, categories, now, procs>>
  /\ IF ~required(name) \/ category.k \in {"absent", "empty"}
          \/ (category.k = "num" /\ category.v = 0) THEN
       /\ resp' = Reply("guest_create", 400)
       /\ UNCHANGED <<invitations, nextId>>
     ELSE IF NumberOrNull(qty) = NaN \/ ToNumber(category) = NaN
               \/ (~isEnum(type, TypeEnum) /\ answer = "reject") THEN
       /\ resp' = Reply("guest_create", 500)
       /\ UNCHANGED <<invitations, nextId>>
     ELSE
       /\ invitations' = invitations \cup
            {NewInvitation(nextId.inv, ToNumber(category), NumberOrNull(qty),
                           type, NullStr)}
       /\ nextId' = [nextId EXCEPT !.inv = @ + 1]
       /\ resp' = Reply("guest_create", 201)

\* PUT /:id of the guest router: nothing is validated.
GuestPut(id, category, qty, type, answer) ==
  /\ UNCHANGED <<build, cookies, captions, scans, checkins, messages, categories, nextId, now, procs>>
  /\ IF NumberOrNull(qty) = NaN \/ NumberOrNull(category) = NaN
          \/ (~isEnum(type, TypeEnum) /\ answer = "reject"
              /\ \E r \in invitations : r.id = id) THEN
       /\ resp' = Reply("guest_put", 500)
       /\ UNCHANGED invitations
     ELSE
       /\ invitations' =
            {IF r.id = id
               THEN PutRow(r, NumberOrNull(category), NumberOrNull(qty), type)
               ELSE r : r \in invitations}
       /\ resp' = Reply("guest_put", 200)

\* PATCH /:slug/status of the guest router.
GuestStatus(slug, status_pengiriman) ==
  /\ UNCHANGED <<build, cookies, captions, scans, checkins, messages, categories, nextId, now, procs>>
  /\ IF status_pengiriman \notin {"terkirim", "belum_terkirim"} THEN
       /\ resp' = Reply("guest_status", 400)
       /\ UNCHANGED invitations
     ELSE IF ~SlugExists(invitations, slug) THEN
       /\ resp' = Reply("guest_status", 404)
       /\ UNCHANGED invitations
     ELSE
       /\ invitations' =
            {IF r.slug = slug
               THEN [r EXCEPT !.status_pengiriman = status_pengiriman]
               ELSE r : r \in invitations}
       /\ resp' = Reply("guest_status", 200)

\* DELETE /:id of variant B.  Rows of checkins and messages that refer to the
\* invitation make the store's answer depend on the schema: the delete is
\* rejected, or it removes them too, or it leaves them behind.
DeleteInvitation(id, answer) ==
  /\ UNCHANGED <<build, cookies, captions, scans, categories, nextId, now, procs>>
  /\ IF ~\E r \in invitations : r.id = id THEN
       /\ resp' = Reply("delete_invitation", 404)
       /\ UNCHANGED <<invitations, checkins, messages>>
     ELSE
       LET referred ==
             \/ \E c \in checkins : c.invitation_id = id
             \/ \E m \in messages : m.invitation_id = id
       IN IF referred /\ answer = "reject" THEN
            /\ resp' = Reply("delete_invitation", 500)
            /\ UNCHANGED <<invitations, checkins, messages>>
          ELSE
            /\ invitations' = {r \in invitations : r.id # id}
            /\ resp' = Reply("delete_invitation", 200)
            /\ IF answer = "cascade" THEN
                 /\ checkins' = {c \in checkins : c.invitation_id # id}
                 /\ messages' = {m \in messages : m.invitation_id # id}
               ELSE UNCHANGED <<checkins, messages>>

----------------------------------------------------------------------------
\* Messages and categories.

\* POST / of the message router (the three copies agree).
MessageCreate(invitation_id, message) ==
  /\ UNCHANGED <<build, cookies, captions, scans, invitations, checkins, categories, now, procs>>
  /\ IF invitation_id = NULL \/ ~required(message) THEN
       /\ resp' = Reply("message_create", 400)
       /\ UNCHANGED <<messages, nextId>>
     ELSE IF ~\E r \in invitations : r.id = invitation_id THEN
       /\ resp' = Reply("message_create", 404)
       /\ UNCHANGED <<messages, nextId>>
     ELSE
       /\ messages' = messages \cup
            {[id |-> nextId.msg, invitation_id |-> invitation_id,
              message |-> message]}
       /\ nextId' = [nextId EXCEPT !.msg = @ + 1]
       /\ resp' = Reply("message_create", 201)

\* DELETE /:id of the message router (the three copies agree).
MessageDelete(id) ==
  /\ UNCHANGED <<build, cookies, captions, scans, invitations, checkins, categories, nextId, now, procs>>
  /\ IF ~\E m \in messages : m.id = id THEN
       \* affectedRows = 0
       /\ resp' = Reply("message_delete", 404)
       /\ UNCHANGED messages
     ELSE
       /\ messages' = {m \in messages : m.id # id}
       /\ resp' = Reply("message_delete", 200)

\* POST / of the category router.
CategoryCreate ==
  /\ UNCHANGED <<build, cookies, captions, scans, invitations, checkins, messages, now, procs>>
  /\ categories' = categories \cup {[id |-> nextId.cat]}
  /\ nextId' = [nextId EXCEPT !.cat = @ + 1]
  /\ resp' = Reply("category_create", 201)

\* DELETE /:id of the category router: affectedRows is not looked at.  A
\* category that invitations refer to may be kept by the store (500).
CategoryDelete(id, answer) ==
  /\ UNCHANGED <<build, cookies, captions, scans, invitations, checkins, messages, nextId, now, procs>>
  /\ IF answer = "reject" /\ \E r \in invitations : r.category = id
          /\ \E c \in categories : c.id = id THEN
       /\ resp' = Reply("category_delete", 500)
       /\ UNCHANGED categories
     ELSE
       /\ categories' = {c \in categories : c.id # id}
       /\ resp' = Reply("category_delete", 200)

----------------------------------------------------------------------------
\* The sequential specification of RSVP and check-in: requests run one at a
\* time, each handler to completion, against the router the build mounts.

GuestName == "Ani"
Slugs == {IF build = "A" THEN CandidateA(100000) ELSE CandidateB(GuestName, 1000)}
QtyIn == {Absent, Num(4)}
OverrideIn == {Absent, Num(3), Empty, Junk}
JumlahIn == {Absent, Str(6), Empty, Junk}
NoteIn == {NullStr}
RsvpIn == RsvpEnum \cup {NullStr, "Mungkin"}

\* Creation stops at MaxInv rows; requests that insert nothing stay enabled.
CreateReq ==
  /\ \E q \in QtyIn : Create(build, GuestName, Absent, q, "digital")
  /\ nextId'.inv <= MaxInv + 1
\* A status outside the enumeration is answered 400 before jumlah_real is read.
KehadiranReq ==
  \E s \in Slugs, st \in RsvpIn :
    \E j \in (IF st \in RsvpEnum THEN JumlahIn ELSE {Absent}) :
      Kehadiran(build, s, st, j)
CheckinReq ==
  \E s \in Slugs, q \in OverrideIn, n \in NoteIn : Checkin(build, s, q, n)

Next == CreateReq \/ KehadiranReq \/ CheckinReq \/ Tick

Spec == Init /\ [][Next]_vars

----------------------------------------------------------------------------
\* The store specification: creation, full update and deletion of rows,
\* requests one at a time.  The invitation router of the build and the guest
\* router are both mounted.

NameIn == {NullStr, GuestName}
TypeIn == {NullStr, "digital", "cetak", "vip"}
CategoryIn == {Absent, Num(1)}
Ids == 1 .. (MaxRows + 1)

StoreCreate ==
  /\ \E n \in NameIn, t \in TypeIn : Create(build, n, Absent, Num(4), t)
  /\ nextId'.inv <= MaxRows + 1
StoreGuestCreate ==
  /\ \E n \in NameIn, c \in CategoryIn, t \in TypeIn, a \in StoreAnswers :
       GuestCreate(n, c, Num(4), t, a)
  /\ nextId'.inv <= MaxRows + 1
StorePut ==
  /\ build = "A"
  /\ \E id \in Ids, n \in NameIn, t \in TypeIn : Put(id, n, Absent, Num(4), t)
StoreGuestPut ==
  \E id \in Ids, t \in TypeIn, a \in StoreAnswers :
    GuestPut(id, Absent, Num(4), t, a)
StoreDeleteInvitation ==
  /\ build = "B"
  /\ \E id \in Ids, a \in StoreAnswers \cup {"cascade"} : DeleteInvitation(id, a)
StoreMessageCreate ==
  /\ \E i \in Ids \cup {NULL}, m \in {"", "Selamat"} : MessageCreate(i, m)
  /\ nextId'.msg <= MaxMsg + 1
StoreMessageDelete == \E id \in Ids : MessageDelete(id)
StoreCategoryCreate == nextId.cat <= MaxCat /\ CategoryCreate
StoreCategoryDelete == \E id \in Ids, a \in StoreAnswers : CategoryDelete(id, a)

NextStore ==
  \/ StoreCreate
  \/ StoreGuestCreate
  \/ StorePut
  \/ StoreGuestPut
  \/ StoreDeleteInvitation
  \/ StoreMessageCreate
  \/ StoreMessageDelete
  \/ StoreCategoryCreate
  \/ StoreCategoryDelete

SpecStore == Init /\ [][NextStore]_vars

----------------------------------------------------------------------------
\* Creation interleaved at its awaits: the generator's SELECT and the
\* handler's INSERT are separate statements, and other requests run between
\* them.

\* Validation, up to the first await of POST /.
CreateBegin(p, name, qty, type) ==
  /\ procs[p].pc = "idle"
  /\ UNCHANGED <<build, cookies, captions, scans, invitations, checkins, messages, categories, nextId, now>>
  /\ IF ~required(name) \/ ~required(type) \/ ~isEnum(type, TypeEnum) THEN
       /\ resp' = Reply("create", 400)
       /\ UNCHANGED procs
     ELSE
       /\ procs' = [procs EXCEPT ![p] =
            [Idle EXCEPT !.pc = "gen", !.name = name,
                         !.qty = NumberOrNull(qty), !.type = type]]
       /\ UNCHANGED resp

\* A bounded generator whose last turn returns its candidate whatever the
\* SELECT found, in place of throwing.
SlugQueryNoThrow(p, r) ==
  /\ procs[p].pc = "gen"
  /\ UNCHANGED <<build, cookies, captions, scans, invitations, checkins, messages, categories, nextId, now>>
  /\ LET slug == IF build = "A" THEN CandidateA(r)
                 ELSE CandidateB(procs[p].name, r)
         exists == SlugExists(invitations, slug)
     IN IF ~exists \/ (build = "B" /\ procs[p].attempt + 1 >= maxAttempts) THEN
          /\ procs' = [procs EXCEPT ![p].pc = "insert", ![p].slug = slug]
          /\ UNCHANGED resp
        ELSE IF build = "A" THEN
          UNCHANGED <<procs, resp>>
        ELSE
          /\ procs' = [procs EXCEPT ![p].attempt = @ + 1]
          /\ UNCHANGED resp

\* An unbounded generator that gives up looping after one collision and
\* returns its second candidate unqueried.
SlugQueryGivesUp(p, r) ==
  /\ procs[p].pc = "gen"
  /\ UNCHANGED <<build, cookies, captions, scans, invitations, checkins, messages, categories, nextId, now>>
  /\ LET slug == IF build = "A" THEN CandidateA(r)
                 ELSE CandidateB(procs[p].name, r)
         exists == SlugExists(invitations, slug)
     IN IF ~exists \/ (build = "A" /\ procs[p].attempt >= 1) THEN
          /\ procs' = [procs EXCEPT ![p].pc = "insert", ![p].slug = slug]
          /\ UNCHANGED resp
        ELSE IF build = "A" \/ procs[p].attempt + 1 < maxAttempts THEN
          /\ procs' = [procs EXCEPT ![p].attempt = @ + 1]
          /\ UNCHANGED resp
        ELSE
          /\ procs' = [procs EXCEPT ![p] = Idle]
          /\ resp' = Reply("create", 500)

\* One turn of the generator's loop: draw r, build the candidate, run the
\* SELECT.  Variant A loops while the candidate exists; variant B returns the
\* first free candidate and throws after maxAttempts collisions.
SlugQuery(p, r) ==
  /\ procs[p].pc = "gen"
  /\ UNCHANGED <<build, cookies, captions, scans, invitations, checkins, messages, categories, nextId, now>>
  /\ LET slug == IF build = "A" THEN CandidateA(r)
                 ELSE CandidateB(procs[p].name, r)
         exists == SlugExists(invitations, slug)
     IN IF ~exists THEN
          /\ procs' = [procs EXCEPT ![p].pc = "insert", ![p].slug = slug]
          /\ UNCHANGED resp
        ELSE IF build = "A" THEN
          UNCHANGED <<procs, resp>>
        ELSE IF procs[p].attempt + 1 < maxAttempts THEN
          /\ procs' = [procs EXCEPT ![p].attempt = @ + 1]
          /\ UNCHANGED resp
        ELSE
          /\ procs' = [procs EXCEPT ![p] = Idle]
          /\ resp' = Reply("create", 500)

\* The INSERT of POST /, with the slug the generator returned.
CreateInsert(p) ==
  /\ procs[p].pc = "insert"
  /\ UNCHANGED <<build, cookies, captions, scans, checkins, messages, categories, now>>
  /\ procs' = [procs EXCEPT ![p] = Idle]
  /\ IF procs[p].qty = NaN THEN
       /\ resp' = Reply("create", 500)
       /\ UNCHANGED <<invitations, nextId>>
     ELSE
       /\ invitations' = invitations \cup
            {NewInvitation(nextId.inv, NULL, procs[p].qty, procs[p].type,
                           procs[p].slug)}
       /\ nextId' = [nextId EXCEPT !.inv = @ + 1]
       /\ resp' = Reply("create", 201)

InFlight == Cardinality({p \in Procs : procs[p].pc # "idle"})

RaceBegin ==
  /\ nextId.inv + InFlight <= MaxRows
  /\ \E p \in Procs, n \in NameIn, q \in QtyIn \cup {Junk}, t \in TypeIn :
       CreateBegin(p, n, q, t)
RaceQuery ==
  \E p \in Procs : \E r \in IF build = "A" THEN RandA ELSE RandB : SlugQuery(p, r)
RaceInsert == \E p \in Procs : CreateInsert(p)

NextRace == RaceBegin \/ RaceQuery \/ RaceInsert

SpecRace == Init /\ [][NextRace]_vars

----------------------------------------------------------------------------
\* The generators on their own: valid creation requests only, so that a
\* creation answered 500 is one whose generator threw, and as many requests as
\* it takes to use up every candidate and ask for one more.
GenBegin ==
  /\ nextId.inv + InFlight <= MaxRand + 1
  /\ \E p \in Procs : CreateBegin(p, GuestName, Num(4), "digital")
GenQuery ==
  \E p \in Procs : \E r \in IF build = "A" THEN RandA ELSE RandB : SlugQuery(p, r)
GenInsert == \E p \in Procs : CreateInsert(p)

NextGen == GenBegin \/ GenQuery \/ GenInsert

SpecGen == Init /\ [][NextGen]_vars

\* Math.random() is fair: a draw that would let the generator move on is not
\* passed over for ever; and a handler whose query returned goes on to its
\* next statement.
GenFair ==
  /\ \A p \in Procs : \A r \in RandA : WF_vars(build = "A" /\ SlugQuery(p, r))
  /\ \A p \in Procs : \A r \in RandB : WF_vars(build = "B" /\ SlugQuery(p, r))
  /\ \A p \in Procs : WF_vars(CreateInsert(p))

SpecGenFair == SpecGen /\ GenFair

\* Every candidate of the slug space is taken.
AllTaken == \A s \in Candidates(build, GuestName) : SlugExists(invitations, s)

----------------------------------------------------------------------------

\* Check-in interleaved at its awaits: the SELECT of the invitation, the
\* SELECT of the log row, the write of the log row and the UPDATE of the
\* invitation are separate statements with no transaction around them.  (The
\* closing SELECT of variant B reads columns the response model does not
\* carry.)

\* Placeholders for the handler's locals before they are assigned.
NoInv == NewInvitation(0, NULL, NULL, NullStr, NullStr)
NoLog == [id |-> 0, invitation_id |-> 0, checked_in_qty |-> NULL,
          scan_count |-> 0, device_note |-> NullStr]

\* const { slug } = req.params; const { checked_in_qty, device_note } = req.body
ScanBegin(p, slug, checked_in_qty, device_note) ==
  /\ procs[p].pc \in {"idle", "done"}
  /\ procs' = [procs EXCEPT ![p] =
       [pc |-> "sel_inv", slug |-> slug, checked_in_qty |-> checked_in_qty,
        device_note |-> device_note, inv |-> NoInv, found |-> FALSE,
        c |-> NoLog, scanCount |-> 0]]
  /\ UNCHANGED <<build, cookies, captions, scans, invitations, checkins, messages, categories,
                 nextId, now, resp>>

\* SELECT * FROM invitations WHERE slug = ? LIMIT 1
ScanSelectInv(p) ==
  /\ procs[p].pc = "sel_inv"
  /\ UNCHANGED <<build, cookies, captions, scans, invitations, checkins, messages, categories,
                 nextId, now>>
  /\ IF ~SlugExists(invitations, procs[p].slug) THEN
       /\ resp' = Reply("checkin", 404)
       /\ procs' = [procs EXCEPT ![p] = Idle]
     ELSE
       /\ \E inv \in {r \in invitations : r.slug = procs[p].slug} :
            procs' = [procs EXCEPT ![p].pc = "sel_log", ![p].inv = inv]
       /\ UNCHANGED resp

\* SELECT id, scan_count, ... FROM checkins WHERE invitation_id = ? LIMIT 1
ScanSelectLog(p) ==
  /\ procs[p].pc = "sel_log"
  /\ UNCHANGED <<build, cookies, captions, scans, invitations, checkins, messages, categories,
                 nextId, now, resp>>
  /\ LET cRows == LogRows(checkins, procs[p].inv.id)
     IN IF cRows = {} THEN
          procs' = [procs EXCEPT ![p].pc = "write_log", ![p].found = FALSE]
        ELSE
          \E c \in cRows :
            procs' = [procs EXCEPT ![p].pc = "write_log", ![p].found = TRUE,
                                   ![p].c = c]

\* The INSERT or UPDATE of the log row, chosen by what the SELECT returned.
ScanWriteLog(p) ==
  /\ procs[p].pc = "write_log"
  /\ UNCHANGED <<build, cookies, captions, scans, invitations, messages, categories, now>>
  /\ LET l == procs[p]
         qtyToUse == QtyToUse(l.inv, l.checked_in_qty)
     IN IF qtyToUse = NaN THEN
          \* the write is rejected by the store
          /\ resp' = Reply("checkin", 500)
          /\ procs' = [procs EXCEPT ![p] = Idle]
          /\ UNCHANGED <<checkins, nextId>>
        ELSE IF ~l.found THEN
          /\ checkins' = LogInsert(checkins, nextId.ck, l.inv, qtyToUse,
                                   l.device_note)
          /\ nextId' = [nextId EXCEPT !.ck = @ + 1]
          /\ procs' = [procs EXCEPT ![p].pc = "write_inv", ![p].scanCount = 1]
          /\ UNCHANGED resp
        ELSE
          /\ checkins' = LogUpdate(build, checkins, l.c, qtyToUse,
                                   l.device_note)
          /\ procs' = [procs EXCEPT ![p].pc = "write_inv",
                                    ![p].scanCount = l.c.scan_count + 1]
          /\ UNCHANGED <<nextId, resp>>

\* The UPDATE of the invitation, chosen by the checked_in flag the first
\* SELECT returned, and the response.
ScanWriteInv(p) ==
  /\ procs[p].pc = "write_inv"
  /\ UNCHANGED <<build, cookies, captions, checkins, messages, categories, nextId, now>>
  /\ LET l == procs[p]
         qtyToUse == QtyToUse(l.inv, l.checked_in_qty)
     IN /\ invitations' = InvCheckin(invitations, l.inv, qtyToUse, now)
        /\ resp' = [Reply("checkin", 200) EXCEPT
                      !.first = ~l.inv.checked_in,
                      !.qty_recorded = qtyToUse,
                      !.scan_count = l.scanCount,
                      !.rsvp_status = IF build = "B" THEN l.inv.rsvp_status
                                      ELSE NullStr]
        /\ scans' = [scans EXCEPT ![l.inv.id] = @ + 1]
        /\ procs' = [procs EXCEPT ![p].pc = "done"]

\* The check-in requests between their first statement and their response.
ScansInFlight == Cardinality({p \in Procs : procs[p].pc \notin {"idle", "done"}})

ScanCreate ==
  /\ \E q \in QtyIn : Create(build, GuestName, Absent, q, "digital")
  /\ nextId'.inv <= MaxLife + 1
\* At most MaxScan check-ins of one invitation are begun.
ScanStart ==
  /\ \A i \in InvIds : scans[i] + ScansInFlight < MaxScan
  /\ \E p \in Procs, s \in Slugs, q \in {Absent, Num(3), Junk} :
       ScanBegin(p, s, q, NullStr)
ScanStepInv == \E p \in Procs : ScanSelectInv(p)
ScanStepLog == \E p \in Procs : ScanSelectLog(p)
ScanStepWriteLog == \E p \in Procs : ScanWriteLog(p)
ScanStepWriteInv == \E p \in Procs : ScanWriteInv(p)

NextScan ==
  \/ ScanCreate
  \/ ScanStart
  \/ ScanStepInv
  \/ ScanStepLog
  \/ ScanStepWriteLog
  \/ ScanStepWriteInv
  \/ Tick

SpecScan == Init /\ [][NextScan]_vars

----------------------------------------------------------------------------
\* The same with a storage error at the UPDATE of the invitation: db.query
\* rejects, awrap hands the error on, and the request is answered 500 with
\* the log row already written.  (An error at an earlier statement leaves
\* nothing written.)
ScanFail(p) ==
  /\ procs[p].pc = "write_inv"
  /\ resp' = Reply("checkin", 500)
  /\ procs' = [procs EXCEPT ![p].pc = "done"]
  /\ UNCHANGED <<build, cookies, captions, scans, invitations, checkins, messages,
                 categories, nextId, now>>

\* No log row is scanned more than MaxScan times, failed requests included.
FailStart ==
  /\ \A c \in checkins : c.scan_count + ScansInFlight < MaxScan
  /\ ScanStart
ScanStepFail == \E p \in Procs : ScanFail(p)

NextScanFail ==
  \/ ScanCreate
  \/ FailStart
  \/ ScanStepInv
  \/ ScanStepLog
  \/ ScanStepWriteLog
  \/ ScanStepWriteInv
  \/ ScanStepFail
  \/ Tick

SpecScanFail == Init /\ [][NextScanFail]_vars

\* No check-in request is between its first statement and its response.
NoScanInProgress == ScansInFlight = 0

----------------------------------------------------------------------------

\* Summary aggregation: GET /summary of the invitation router (part_001) and
\* GET / of the standalone summary router, which index.js mounts at
\* /api/summary and /api/invitations/summary.  (The /summary route of variant
\* B is declared after its /:slug route and is never reached.)

\* The sum of the values of f that are not NULL.
RECURSIVE SumNonNull(_)
SumNonNull(f) ==
  IF DOMAIN f = {} THEN 0
  ELSE LET r == CHOOSE x \in DOMAIN f : TRUE
       IN (IF f[r] = NULL THEN 0 ELSE f[r])
            + SumNonNull([x \in DOMAIN f \ {r} |-> f[x]])

\* SQL SUM(expr) over the rows: NULL when no row has a non-NULL value.
SqlSum(f) ==
  IF \A r \in DOMAIN f : f[r] = NULL THEN NULL ELSE SumNonNull(f)

\* SQL COUNT(*) ... WHERE cond, and COALESCE(x, 0).
SqlCount(rows) == Cardinality(rows)
Coalesce0(x) == IF x = NULL THEN 0 ELSE x

\* RealOrQty counting the invited quantity whatever was confirmed.
RealOrQtyInvited(r) == r.qty

\* COALESCE(real_qty, qty)
RealOrQty(r) == IF r.real_qty # NULL THEN r.real_qty ELSE r.qty

\* COUNT(CASE WHEN cond THEN 1 ELSE 0 END) in place of the SUM: every row
\* counts.
SumCaseAsCount(tbl, yes) == Cardinality(tbl)

\* SUM(CASE WHEN cond THEN 1 ELSE 0 END) over the rows, yes being the rows
\* that satisfy cond.
SumCase(tbl, yes) == SqlSum([r \in tbl |-> IF r \in yes THEN 1 ELSE 0])

\* NumberOr0 without the fallback: the column as the store returned it.
NumberRaw(x) == x

\* Number(x || 0) and Number(x) || 0: a NULL or 0 column reads as 0.
NumberOr0(x) == IF x = NULL \/ x = 0 THEN 0 ELSE x

\* The payload both handlers build from their normalised numbers.
Payload(totalUndangan, totalTamu, checkedInUndangan, checkedInTamu, digital, cetak, hadir, tidak_hadir, belum_konfirmasi) ==
  [totalUndangan |-> totalUndangan,
   totalTamu |-> totalTamu,
   checkedInUndangan |-> checkedInUndangan,
   checkedInTamu |-> checkedInTamu,
   belumCheckInUndangan |-> totalUndangan - checkedInUndangan,
   belumCheckInTamu |-> totalTamu - checkedInTamu,
   digital |-> digital,
   cetak |-> cetak,
   confirmed |-> [hadir |-> hadir, tidak_hadir |-> tidak_hadir,
                  belum_konfirmasi |-> belum_konfirmasi],
   total |-> totalUndangan,
   estimasi_tamu |-> totalTamu]

\* SUM(CASE WHEN checked_in = 1 THEN COALESCE(real_qty, qty) ELSE 0 END)
CheckedInTamuSum(tbl) ==
  SqlSum([r \in tbl |-> IF r.checked_in THEN RealOrQty(r) ELSE 0])

\* GET /summary of the invitation router: one SELECT of nine aggregates.
SummaryRouter(tbl) ==
  Payload(NumberOr0(SqlCount(tbl)),
          NumberOr0(Coalesce0(SqlSum([r \in tbl |-> r.qty]))),
          NumberOr0(SumCase(tbl, {r \in tbl : r.checked_in})),
          NumberOr0(Coalesce0(CheckedInTamuSum(tbl))),
          NumberOr0(SumCase(tbl, {r \in tbl : r.type = "digital"})),
          NumberOr0(SumCase(tbl, {r \in tbl : r.type = "cetak"})),
          NumberOr0(SumCase(tbl, {r \in tbl : r.rsvp_status = "Hadir"})),
          NumberOr0(SumCase(tbl, {r \in tbl : r.rsvp_status = "Tidak Hadir"})),
          NumberOr0(SumCase(tbl,
                            {r \in tbl : r.rsvp_status = "Belum Konfirmasi"})))

\* GET / of the standalone router: seven SELECTs, the breakdowns by COUNT(*)
\* ... WHERE.
SummaryStandalone(tbl) ==
  Payload(NumberOr0(SqlCount(tbl)),
          NumberOr0(Coalesce0(SqlSum([r \in tbl |-> r.qty]))),
          NumberOr0(SumCase(tbl, {r \in tbl : r.checked_in})),
          NumberOr0(Coalesce0(CheckedInTamuSum(tbl))),
          NumberOr0(SqlCount({r \in tbl : r.type = "digital"})),
          NumberOr0(SqlCount({r \in tbl : r.type = "cetak"})),
          NumberOr0(SqlCount({r \in tbl : r.rsvp_status = "Hadir"})),
          NumberOr0(SqlCount({r \in tbl : r.rsvp_status = "Tidak Hadir"})),
          NumberOr0(SqlCount({r \in tbl : r.rsvp_status = "Belum Konfirmasi"})))

SummaryHandlers == {"router", "standalone"}

\* The response of a summary request: the reply with the payload as its body.
SummaryReply(body) ==
  [op |-> "summary", status |-> 200, first |-> FALSE, qty_recorded |-> NULL,
   scan_count |-> NULL, rsvp_status |-> NullStr, body |-> body]

\* A summary request; the invitation router's own route exists in variant A.
Summary(h) ==
  /\ h = "router" => build = "A"
  /\ resp' = SummaryReply(IF h = "router" THEN SummaryRouter(invitations)
                          ELSE SummaryStandalone(invitations))
  /\ UNCHANGED <<build, cookies, captions, scans, invitations, checkins, messages, categories,
                 nextId, now, procs>>

\* The specification of the summary: creations, RSVP updates and scans
\* addressed to any invitation, and summary requests between them.
SumSlugs == Candidates(build, GuestName)

\* The requests of this specification: a digital invitation for 4 or a
\* printed one without quantity; 'Hadir' with 6 or 'Tidak Hadir'; a scan with
\* or without an override above the invited quantity.
SumCreate ==
  /\ \E c \in {<<Num(4), "digital">>, <<Absent, "cetak">>} :
       Create(build, GuestName, Absent, c[1], c[2])
  /\ nextId'.inv <= MaxInv + 1
SumKehadiran ==
  \E s \in SumSlugs, k \in {<<"Hadir", Str(6)>>, <<"Tidak Hadir", Absent>>} :
    Kehadiran(build, s, k[1], k[2])
SumCheckin ==
  \E s \in SumSlugs, q \in {Absent, Num(5)} : Checkin(build, s, q, NullStr)
SumSummary == \E h \in SummaryHandlers : Summary(h)

NextSum == SumCreate \/ SumKehadiran \/ SumCheckin \/ SumSummary

SpecSum == Init /\ [][NextSum]_vars

----------------------------------------------------------------------------
\* Access control: login and logout of the auth controller, the verifyToken
\* middleware and the two routes it guards.

\* The rows of the users table; a role other than the two guarded ones exists.
Users ==
  {[id |-> 1, username |-> "klien", role |-> "client"],
   [id |-> 2, username |-> "panitia", role |-> "user"],
   [id |-> 3, username |-> "admin", role |-> "admin"]}
Roles == {"client", "user"}

\* bcrypt.compare(password, user.password)
PasswordOf(u) == "pw-" \o u.username

\* jwt.sign({ id, username, role }, JWT_SECRET, { expiresIn: '1d' })
Sign(u) == [id |-> u.id, username |-> u.username, role |-> u.role, ok |-> TRUE]

\* The tokens a client can send: those login issues, and the same claims
\* under a signature jwt.verify rejects (forged or expired).
Tokens == {Sign(u) : u \in Users} \cup {[Sign(u) EXCEPT !.ok = FALSE] : u \in Users}

\* role === 'client' ? 'token_client' : 'token_user'
CookieName(role) == IF role = "client" THEN "token_client" ELSE "token_user"

\* The response of an auth request or of a guarded route: the reply, its
\* message, and the claims the route's handler found in req.user.
AuthReply(op, status, message, user) ==
  [op |-> op, status |-> status, first |-> FALSE, qty_recorded |-> NULL,
   scan_count |-> NULL, rsvp_status |-> NullStr,
   message |-> message, user |-> user]

\* POST /login.
Login(username, password) ==
  /\ UNCHANGED <<build, captions, scans, invitations, checkins, messages, categories,
                 nextId, now, procs>>
  /\ IF username = "" \/ password = "" THEN
       /\ resp' = AuthReply("login", 400, "Username dan password wajib diisi",
                            NoToken)
       /\ UNCHANGED cookies
     ELSE IF ~\E u \in Users : u.username = username THEN
       /\ resp' = AuthReply("login", 401, "Username tidak ditemukan", NoToken)
       /\ UNCHANGED cookies
     ELSE
       \E u \in {x \in Users : x.username = username} :
         IF password # PasswordOf(u) THEN
           /\ resp' = AuthReply("login", 401, "Password salah", NoToken)
           /\ UNCHANGED cookies
         ELSE
           /\ cookies' = [cookies EXCEPT ![CookieName(u.role)] = Sign(u)]
           /\ resp' = AuthReply("login", 200, "Login berhasil",
                                [id |-> u.id, username |-> u.username,
                                 role |-> u.role])

\* POST /logout: both cookies are cleared.
Logout ==
  /\ UNCHANGED <<build, captions, scans, invitations, checkins, messages, categories,
                 nextId, now, procs>>
  /\ cookies' = NoCookies
  /\ resp' = AuthReply("logout", 200, "Logout berhasil", NoToken)

\* The client edits its cookies: any token under any name, or none.
SetCookie(name, token) ==
  /\ cookies' = [cookies EXCEPT ![name] = token]
  /\ cookies' # cookies
  /\ UNCHANGED <<build, captions, scans, invitations, checkins, messages, categories,
                 nextId, now, procs, resp>>

\* verifyToken without the comparison of the role claim.
VerifyTokenAnyRole(role, jar) ==
  LET token == jar[CookieName(role)]
  IN IF token = NoToken THEN
       [next |-> FALSE, status |-> 401, message |-> "Tidak ada token",
        user |-> NoToken]
     ELSE IF ~token.ok THEN
       [next |-> FALSE, status |-> 401, message |-> "Token tidak valid",
        user |-> NoToken]
     ELSE
       [next |-> TRUE, status |-> 200, message |-> "", user |-> token]

\* verifyToken(role) on a request carrying the cookies jar: whether next() is
\* called, and otherwise the rejection; user is req.user.
verifyToken(role, jar) ==
  LET token == jar[CookieName(role)]
  IN IF token = NoToken THEN
       [next |-> FALSE, status |-> 401, message |-> "Tidak ada token",
        user |-> NoToken]
     ELSE IF ~token.ok THEN
       \* jwt.verify throws
       [next |-> FALSE, status |-> 401, message |-> "Token tidak valid",
        user |-> NoToken]
     ELSE IF token.role # role THEN
       [next |-> FALSE, status |-> 403, message |-> "Akses ditolak",
        user |-> NoToken]
     ELSE
       [next |-> TRUE, status |-> 200, message |-> "", user |-> token]

\* GET /client/data and GET /user/data: the handler answers with req.user.
Guarded(role) ==
  /\ UNCHANGED <<build, captions, scans, invitations, checkins, messages, categories,
                 nextId, now, procs, cookies>>
  /\ LET v == verifyToken(role, cookies)
     IN IF v.next THEN
          resp' = AuthReply("data", 200, "Data khusus " \o role, v.user)
        ELSE
          resp' = AuthReply("data", v.status, v.message, NoToken)

AuthLogin ==
  \E n \in {u.username : u \in Users} \cup {"", "tamu"},
     pw \in {PasswordOf(u) : u \in Users} \cup {"", "salah"} : Login(n, pw)
AuthSetCookie ==
  \E c \in CookieNames, t \in Tokens \cup {NoToken} : SetCookie(c, t)
AuthGuarded == \E role \in Roles : Guarded(role)

NextAuth == AuthLogin \/ Logout \/ AuthSetCookie \/ AuthGuarded

SpecAuth == Init /\ [][NextAuth]_vars

----------------------------------------------------------------------------
\* The specification of an invitation's whole life: every writer of the
\* invitations table and the message operations, requests one at a time.

\* The invitation the requests of this specification are addressed to.
Target == {r \in invitations : r.slug \in Slugs}

AllCreate ==
  /\ Create(build, GuestName, Absent, Num(4), "digital")
  /\ nextId'.inv <= MaxLife + 1
AllPut ==
  /\ build = "A"
  /\ \E r \in Target, q \in QtyIn : Put(r.id, GuestName, Absent, q, "cetak")
AllGuestPut == \E r \in Target : GuestPut(r.id, Num(1), Num(4), "vip", "accept")
AllStatus ==
  /\ build = "A"
  /\ \E s \in Slugs, a \in {Absent, True}, b \in {Absent, False} :
       Status(s, a, b)
AllGuestStatus == \E s \in Slugs : GuestStatus(s, "terkirim")
AllKehadiran ==
  \/ \E s \in Slugs, st \in {"Hadir", "Tidak Hadir"}, j \in {Absent, Str(6)} :
       Kehadiran(build, s, st, j)
  \/ \E s \in Slugs, st \in RsvpIn \ RsvpEnum : Kehadiran(build, s, st, Absent)
AllCheckin == \E s \in Slugs, q \in {Absent, Num(3)} : Checkin(build, s, q, NullStr)
AllMessageCreate ==
  /\ \E r \in Target : MessageCreate(r.id, "Selamat")
  /\ nextId'.msg <= MaxMsg + 1
AllMessageDelete == \E id \in 1 .. MaxMsg : MessageDelete(id)

NextAll ==
  \/ AllCreate
  \/ AllPut
  \/ AllGuestPut
  \/ AllStatus
  \/ AllGuestStatus
  \/ AllKehadiran
  \/ AllCheckin
  \/ AllMessageCreate
  \/ AllMessageDelete

SpecAll == Init /\ [][NextAll]_vars

----------------------------------------------------------------------------
\* Captions: the caption router and the caption_text column of the invitation
\* list and detail.

\* Bound on the rows of the caption table.
MaxCap == 3

\* The categories captions are written for and looked up by.
CaptionCats == {1, 2}

\* INSERT INTO caption (category_id, caption_text): is_active is not among
\* the inserted columns and no statement of the source writes it, so a row
\* holds either value (the column's default, or a change made in the store).
NewCaption(id, category_id, caption_text, is_active) ==
  [id |-> id, category_id |-> category_id, caption_text |-> caption_text,
   is_active |-> is_active]

\* The placeholder where no caption row is returned.
NoCaption == NewCaption(0, NULL, NullStr, FALSE)

\* WHERE category_id = ? AND is_active = 1
ActiveCaptions(tbl, category_id) ==
  {c \in tbl : c.category_id = category_id /\ c.is_active}

\* ... ORDER BY id DESC LIMIT 1: the rows the statement can return.
LatestCaption(tbl, category_id) ==
  {c \in ActiveCaptions(tbl, category_id) :
     \A d \in ActiveCaptions(tbl, category_id) : d.id <= c.id}

\* ... LIMIT 1 with no ORDER BY: the store returns any one matching row.
AnyCaption(tbl, category_id) == ActiveCaptions(tbl, category_id)

\* The response of a caption request or of an invitation list or detail:
\* the caption row, the caption_text column, or the listed rows.
CaptionReply(op, status, caption, caption_text, rows) ==
  [op |-> op, status |-> status, first |-> FALSE, qty_recorded |-> NULL,
   scan_count |-> NULL, rsvp_status |-> NullStr,
   caption |-> caption, caption_text |-> caption_text, rows |-> rows]

\* POST / of the caption router.
CaptionCreate(category_id, caption_text, is_active) ==
  /\ captions' = captions \cup
       {NewCaption(nextId.cap, category_id, caption_text, is_active)}
  /\ nextId' = [nextId EXCEPT !.cap = @ + 1]
  /\ resp' = CaptionReply("caption_create", 200, NoCaption, NullStr, {})
  /\ UNCHANGED <<build, cookies, scans, invitations, checkins, messages,
                 categories, now, procs>>

\* GET /:category_id of the caption router.
CaptionGet(category_id) ==
  /\ IF AnyCaption(captions, category_id) = {} THEN
       resp' = CaptionReply("caption_get", 404, NoCaption, NullStr, {})
     ELSE
       \E c \in AnyCaption(captions, category_id) :
         resp' = CaptionReply("caption_get", 200, c, c.caption_text, {})
  /\ UNCHANGED <<build, cookies, captions, scans, invitations, checkins,
                 messages, categories, nextId, now, procs>>

\* The caption_text sub-select of SELECT_WITH_CAPTION for invitation i: null
\* when no row matches.
CaptionText(tbl, i) ==
  IF LatestCaption(tbl, i.category) = {} THEN {NullStr}
  ELSE {c.caption_text : c \in LatestCaption(tbl, i.category)}

\* The rows of SELECT_WITH_CAPTION: the columns of the invitation that matter
\* here, with its caption_text.
WithCaption(i) ==
  {[id |-> i.id, category |-> i.category, caption_text |-> t] :
     t \in CaptionText(captions, i)}

\* GET /:slug of variant A.
Detail(slug) ==
  /\ IF ~SlugExists(invitations, slug) THEN
       resp' = CaptionReply("detail", 404, NoCaption, NullStr, {})
     ELSE
       \E i \in {r \in invitations : r.slug = slug} :
         \E row \in WithCaption(i) :
           resp' = CaptionReply("detail", 200, NoCaption, row.caption_text,
                                {row})
  /\ UNCHANGED <<build, cookies, captions, scans, invitations, checkins,
                 messages, categories, nextId, now, procs>>

\* GET / of variant A without filters, and GET / of the guest router.
List(op) ==
  /\ resp' = CaptionReply(op, 200, NoCaption, NullStr,
                          UNION {WithCaption(i) : i \in invitations})
  /\ UNCHANGED <<build, cookies, captions, scans, invitations, checkins,
                 messages, categories, nextId, now, procs>>

\* The specification of the captions: invitations of category 1, captions of
\* two categories, and the lookups.  Each request carries a text of its own,
\* so a response tells which row it was read from.
CapCreateInv ==
  /\ Create(build, GuestName, Num(1), Num(4), "digital")
  /\ nextId'.inv <= MaxLife + 1
CapCreate ==
  /\ nextId.cap <= MaxCap
  /\ \E c \in CaptionCats, a \in BOOLEAN :
       CaptionCreate(c, "teks-" \o ToString(nextId.cap), a)
CapGet == \E c \in CaptionCats : CaptionGet(c)
CapDetail ==
  /\ build = "A"
  /\ \E s \in Candidates(build, GuestName) : Detail(s)
CapList ==
  /\ build = "A"
  /\ List("list")
CapGuestList == List("guest_list")

NextCaption ==
  \/ CapCreateInv
  \/ CapCreate
  \/ CapGet
  \/ CapDetail
  \/ CapList
  \/ CapGuestList

SpecCaption == Init /\ [][NextCaption]_vars

----------------------------------------------------------------------------

\* Check-in with device notes: one invitation, RSVP updates, and scans that
\* carry a note or none.
DeviceNotes == {NullStr, "gerbang"}

NoteCreate ==
  /\ \E q \in QtyIn : Create(build, GuestName, Absent, q, "digital")
  /\ nextId'.inv <= MaxLife + 1
NoteKehadiran ==
  \E s \in Slugs, a \in {<<"Hadir", Str(6)>>, <<"Belum Konfirmasi", Absent>>} :
    Kehadiran(build, s, a[1], a[2])
NoteCheckin ==
  \E s \in Slugs, q \in {Absent, Num(3)}, n \in DeviceNotes :
    Checkin(build, s, q, n)

NextNote == NoteCreate \/ NoteKehadiran \/ NoteCheckin

SpecNote == Init /\ [][NextNote]_vars

----------------------------------------------------------------------------

\* The delivery flags: one invitation, its RSVP and check-in, and
\* delivery-status updates for its slug and for a slug no invitation has.
UnknownSlug == "tidak-ada"
StatusSlugs == Slugs \cup {UnknownSlug}
FlagIn == {Absent, True, False, Null}

FlagCreate ==
  /\ Create(build, GuestName, Absent, Num(4), "digital")
  /\ nextId'.inv <= MaxLife + 1
FlagKehadiran == \E s \in Slugs : Kehadiran(build, s, "Hadir", Str(6))
FlagCheckin == \E s \in Slugs : Checkin(build, s, Absent, NullStr)
FlagStatus ==
  /\ build = "A"
  /\ \E s \in StatusSlugs, a \in FlagIn, b \in FlagIn : Status(s, a, b)

NextFlag == FlagCreate \/ FlagKehadiran \/ FlagCheckin \/ FlagStatus \/ Tick

SpecFlag == Init /\ [][NextFlag]_vars

----------------------------------------------------------------------------

\* Claims.

\* C1: after any sequence of creation requests, interleaved ones included, no
\* two rows of the invitations table carry the same slug.
SlugUnique ==
  \A r1, r2 \in invitations :
    (r1.id # r2.id /\ r1.slug # NullStr) => r1.slug # r2.slug

\* C6: every creation request whose type is missing or outside
\* {digital, cetak} is answered 400 and leaves the invitations table
\* unchanged.
CreateRejectsBadType ==
  [][\A n \in NameIn, c \in CategoryIn, t \in TypeIn \ TypeEnum,
        a \in StoreAnswers :
       (Create(build, n, Absent, Num(4), t) \/ GuestCreate(n, c, Num(4), t, a))
         => (resp'.status = 400 /\ invitations' = invitations)]_vars

\* C7: a delete request for a message, invitation or category whose id
\* matches no row is answered 404 and changes no table.
DeleteMissingNotFound ==
  [][\A id \in Ids, a \in StoreAnswers \cup {"cascade"} :
       (\/ MessageDelete(id) /\ ~\E m \in messages : m.id = id
        \/ DeleteInvitation(id, a) /\ ~\E r \in invitations : r.id = id
        \/ CategoryDelete(id, a) /\ ~\E c \in categories : c.id = id)
         => (/\ resp'.status = 404
             /\ UNCHANGED <<invitations, checkins, messages, categories>>)]_vars

\* The row of the invitations table with the given id, before and after a step.
Row(tbl, id) == CHOOSE r \in tbl : r.id = id
HasRow(tbl, id) == \E r \in tbl : r.id = id

\* A step is a check-in request on invitation inv that was answered 200.
CheckinOf(inv) ==
  /\ resp'.op = "checkin" /\ resp'.status = 200
  /\ \E q \in OverrideIn, n \in NoteIn : Checkin(build, inv.slug, q, n)

\* C2: a check-in answered 200 on an invitation that is not checked in and has
\* no log row ends with checked_in true, checked_in_at set, exactly one log
\* row with scan_count 1, and rsvp_status as before.
FirstCheckinEffect ==
  [][\A inv \in invitations :
       (~inv.checked_in /\ LogRows(checkins, inv.id) = {} /\ CheckinOf(inv))
         => /\ HasRow(invitations', inv.id)
            /\ Row(invitations', inv.id).checked_in
            /\ Row(invitations', inv.id).checked_in_at # NULL
            /\ Row(invitations', inv.id).rsvp_status = inv.rsvp_status
            /\ Cardinality(LogRows(checkins', inv.id)) = 1
            /\ \A c \in LogRows(checkins', inv.id) : c.scan_count = 1]_vars

\* C2 witness: a first check-in was answered after an RSVP had set the status.
FirstCheckinSeen ==
  /\ resp.op = "checkin" /\ resp.status = 200 /\ resp.first
  /\ \E r \in invitations :
       /\ r.checked_in /\ r.rsvp_status = "Tidak Hadir"
       /\ \E c \in LogRows(checkins, r.id) : c.scan_count = 1

\* C3: a check-in answered 200 on a checked-in invitation raises the log
\* row's scan_count by exactly 1, keeps checked_in true and sets checked_in_at
\* to the time of the scan; the scan count of a checked-in invitation is the
\* number of scans answered so far.
RepeatScanStep ==
  \A inv \in invitations :
    (inv.checked_in /\ CheckinOf(inv))
      => /\ LogRows(checkins, inv.id) # {}
         /\ \A c \in LogRows(checkins, inv.id) :
              \E d \in LogRows(checkins', inv.id) :
                d.id = c.id /\ d.scan_count = c.scan_count + 1
         /\ Cardinality(LogRows(checkins', inv.id)) = 1
         /\ Row(invitations', inv.id).checked_in
         /\ Row(invitations', inv.id).checked_in_at = now
ScanCountIsScans ==
  \A r \in invitations :
    /\ r.checked_in => LogRows(checkins, r.id) # {}
    /\ \A c \in LogRows(checkins, r.id) : c.scan_count = scans[r.id]
RepeatScanCounts == [][RepeatScanStep]_vars /\ []ScanCountIsScans

\* C3 witness: a repeat scan of one invitation was answered, at a later time
\* than its first, and brought its scan count to 2.
RepeatScanSeen ==
  /\ resp.op = "checkin" /\ resp.status = 200 /\ ~resp.first
  /\ resp.scan_count = 2
  /\ \E r \in invitations : r.checked_in /\ r.checked_in_at = 2 /\ scans[r.id] = 2

\* The quantity the specification resolves for a scan: the override, else the
\* confirmed quantity, else the invited quantity.
Resolved(inv, q) ==
  IF q.k # "absent" THEN ToNumber(q)
  ELSE IF inv.real_qty # NULL THEN inv.real_qty
  ELSE inv.qty

\* C4: the first check-in sets real_qty to the resolved quantity only if
\* real_qty was null; a real_qty stored by an RSVP is left unchanged, also
\* under an explicit override.
FirstCheckinKeepsRealQty ==
  [][\A inv \in invitations, q \in OverrideIn, n \in NoteIn :
       (/\ ~inv.checked_in
        /\ resp'.op = "checkin" /\ resp'.status = 200
        /\ Checkin(build, inv.slug, q, n))
         => Row(invitations', inv.id).real_qty =
              IF inv.real_qty = NULL THEN Resolved(inv, q) ELSE inv.real_qty]_vars

\* C5: an RSVP update with status 'Tidak Hadir' on an existing invitation
\* stores real_qty = 0 whatever jumlah_real the body carries.
TidakHadirStoresZero ==
  [][\A inv \in invitations, j \in JumlahIn :
       (/\ resp'.op = "kehadiran" /\ resp'.status = 200
        /\ Kehadiran(build, inv.slug, "Tidak Hadir", j))
         => Row(invitations', inv.id).real_qty = 0]_vars

\* In the two formulas of C8 the conjunct on scans, the count of answered
\* check-ins per row, picks the row that was scanned.

\* C8 as stated: the response's qty_recorded and the log row's checked_in_qty
\* are both the resolved quantity.
RecordedIsResolved ==
  [][\A inv \in invitations, q \in OverrideIn, n \in NoteIn :
       (/\ resp'.op = "checkin" /\ resp'.status = 200
        /\ scans'[inv.id] # scans[inv.id]
        /\ Checkin(build, inv.slug, q, n))
         => /\ resp'.qty_recorded = Resolved(inv, q)
            /\ \A c \in LogRows(checkins', inv.id) :
                 c.checked_in_qty = Resolved(inv, q)]_vars

\* C8 amended: qty_recorded is the resolved quantity; the log row holds it
\* when it is not null, and otherwise 0 or, on a repeat scan under variant B,
\* the quantity the row held before.
RecordedIsResolvedOrZero ==
  [][\A inv \in invitations, q \in OverrideIn, n \in NoteIn :
       (/\ resp'.op = "checkin" /\ resp'.status = 200
        /\ scans'[inv.id] # scans[inv.id]
        /\ Checkin(build, inv.slug, q, n))
         => /\ resp'.qty_recorded = Resolved(inv, q)
            /\ \A c \in LogRows(checkins', inv.id) :
                 c.checked_in_qty =
                   IF Resolved(inv, q) # NULL THEN Resolved(inv, q)
                   ELSE IF build = "B" /\ LogRows(checkins, inv.id) # {}
                     THEN Row(checkins, c.id).checked_in_qty
                   ELSE 0]_vars

\* C8 witness: a scan without override recorded the confirmed quantity of an
\* invitation whose invited quantity differs.
RecordedConfirmedSeen ==
  /\ resp.op = "checkin" /\ resp.status = 200 /\ resp.qty_recorded = 6
  /\ \E r \in invitations :
       /\ r.qty = 4 /\ r.real_qty = 6
       /\ \E c \in LogRows(checkins, r.id) : c.checked_in_qty = 6

\* C9: a check-in answered 200 on a checked-in invitation changes only
\* checked_in_at of that row, and no other row of the table.
RepeatScanFrame ==
  [][\A inv \in invitations :
       (inv.checked_in /\ CheckinOf(inv))
         => invitations' =
              (invitations \ {inv}) \cup {[inv EXCEPT !.checked_in_at = now]}]_vars

\* C9 witness: a repeat scan with an override was answered, the row still
\* carries another confirmed quantity, and the table holds a second row.
RepeatOverrideSeen ==
  /\ resp.op = "checkin" /\ resp.status = 200 /\ ~resp.first
  /\ resp.qty_recorded = 3
  /\ Cardinality(invitations) = 2
  /\ \E r \in invitations : r.checked_in /\ r.real_qty = 4 /\ r.checked_in_at = 2

\* C10: once an invitation's checked_in flag is true it stays true for as
\* long as the row exists, under check-in, RSVP, delivery-status, full-update
\* and message operations.
CheckedInStays ==
  [][\A r \in invitations :
       (r.checked_in /\ HasRow(invitations', r.id))
         => Row(invitations', r.id).checked_in]_vars

\* C10 witness: a checked-in invitation has since been fully updated, marked
\* sent, answered 'Tidak Hadir' and scanned again.
CheckedInSurvivorSeen ==
  \E r \in invitations :
    /\ r.checked_in /\ r.checked_in_at # NULL /\ r.type = "cetak" /\ r.is_sent
    /\ r.rsvp_status = "Tidak Hadir" /\ scans[r.id] >= 2
    /\ \E m \in messages : m.invitation_id = r.id

\* C11: a check-in request, whatever its answer, leaves the rsvp_status of
\* every invitation as it was; when the response of an answered check-in
\* carries an rsvp_status, it is the one stored on the scanned row.
CheckinKeepsRsvp ==
  [][(resp'.op = "checkin" /\ CheckinReq) =>
       /\ \A r \in invitations :
            /\ HasRow(invitations', r.id)
            /\ Row(invitations', r.id).rsvp_status = r.rsvp_status
       /\ \A inv \in invitations :
            (CheckinOf(inv) /\ resp'.rsvp_status # NullStr)
              => resp'.rsvp_status = Row(invitations', inv.id).rsvp_status]_vars

\* C11 witness: a repeat scan of an invitation that had answered 'Hadir' was
\* answered with that status in the response.
CheckinRsvpSeen ==
  /\ resp.op = "checkin" /\ resp.status = 200 /\ ~resp.first
  /\ resp.rsvp_status = "Hadir"
  /\ \E r \in invitations :
       r.checked_in /\ r.rsvp_status = "Hadir" /\ scans[r.id] = 2

\* C12: a manual RSVP update, whatever its answer, leaves the check-in log
\* and every invitation with another slug as they were, and changes at most
\* rsvp_status and real_qty of the invitation it addresses.  Every RSVP
\* request ends with a "kehadiran" response, and the requests of this
\* specification address the slugs of Slugs.
KehadiranFrame ==
  [][resp'.op = "kehadiran" =>
       /\ checkins' = checkins
       /\ \A r \in invitations :
            /\ HasRow(invitations', r.id)
            /\ r.slug \notin Slugs => r \in invitations'
            /\ [Row(invitations', r.id) EXCEPT
                  !.rsvp_status = r.rsvp_status,
                  !.real_qty = r.real_qty] = r
       /\ Cardinality(invitations') = Cardinality(invitations)]_vars

\* C12 witness: an RSVP update was answered 200 on a checked-in invitation
\* that has its log row, while the table holds a second invitation.
KehadiranOnCheckedInSeen ==
  /\ resp.op = "kehadiran" /\ resp.status = 200
  /\ Cardinality(invitations) = 2
  /\ \E r \in invitations :
       /\ r.slug \in Slugs /\ r.checked_in /\ r.checked_in_at # NULL
       /\ r.rsvp_status = "Tidak Hadir"
       /\ LogRows(checkins, r.id) # {}

\* C13: an RSVP update answered 200 with status 'Hadir' or 'Belum Konfirmasi'
\* stores as real_qty the number jumlah_real stands for, or null when
\* jumlah_real is absent or the empty string, whatever the row held before and
\* whatever its invited qty.
HadirStoresJumlah ==
  [][(resp'.op = "kehadiran" /\ resp'.status = 200) =>
       \A inv \in {r \in invitations : r.slug \in Slugs},
          st \in {"Hadir", "Belum Konfirmasi"} \cap {resp'.rsvp_status},
          j \in JumlahIn :
         Kehadiran(build, inv.slug, st, j) =>
           Row(invitations', inv.id).real_qty =
             IF j = Absent \/ j = Empty THEN NULL ELSE j.v]_vars

\* C13 witness, a quantity above the invited one that replaces a stored one:
\* an invitation with qty 4, checked in with quantity 3, then answered 'Hadir'
\* and holds real_qty 6.
HadirSixSeen ==
  /\ resp.op = "kehadiran" /\ resp.status = 200 /\ resp.rsvp_status = "Hadir"
  /\ \E r \in invitations :
       /\ r.qty = 4 /\ r.real_qty = 6 /\ r.rsvp_status = "Hadir"
       /\ r.checked_in
       /\ \E c \in LogRows(checkins, r.id) : c.checked_in_qty = 3

\* C14: a check-in request whose slug matches no invitation is answered 404
\* and leaves the invitations and checkins tables as they were.
UnknownSlugNoWrite ==
  [][resp'.op = "checkin" =>
       \A s \in Slugs :
         (/\ ~SlugExists(invitations, s)
          /\ \E q \in OverrideIn, n \in NoteIn : Checkin(build, s, q, n))
           => /\ resp'.status = 404
              /\ invitations' = invitations
              /\ checkins' = checkins]_vars

\* C14 witness: a scan was answered 404 while the table holds an invitation
\* with another slug.
UnknownSlugSeen ==
  /\ resp.op = "checkin" /\ resp.status = 404
  /\ invitations # {}
  /\ \A r \in invitations : r.slug \notin Slugs

\* C15: with requests run one at a time the checkins table holds at most one
\* row per invitation, and a scan of an invitation that has its row adds none.
OneLogRowPerInvitation ==
  \A i \in InvIds : Cardinality({c \in checkins : c.invitation_id = i}) <= 1
ScanAddsNoRow ==
  \A inv \in invitations :
    ((\E c \in checkins : c.invitation_id = inv.id) /\ CheckinOf(inv))
      => {c.id : c \in checkins'} = {c.id : c \in checkins}
OneLogRow == []OneLogRowPerInvitation /\ [][ScanAddsNoRow]_vars

\* C15 witness: an invitation was scanned twice and the one log row ever
\* inserted is its own.
OneLogRowSeen ==
  /\ nextId.ck = 2
  /\ \E r \in invitations :
       /\ scans[r.id] = 2
       /\ Cardinality({c \in checkins : c.invitation_id = r.id}) = 1

\* Two check-in requests have both been answered after each read the same
\* invitation as not checked in and found no log row for it.
BothFirstScan(p, q) ==
  /\ p # q
  /\ procs[p].pc = "done" /\ procs[q].pc = "done"
  /\ procs[p].inv.id = procs[q].inv.id
  /\ ~procs[p].inv.checked_in /\ ~procs[q].inv.checked_in
  /\ ~procs[p].found /\ ~procs[q].found

\* C16: when two interleaved check-ins of one invitation both took the
\* first-scan branch, the invitation ends with more than one log row or with a
\* log row whose scan_count is not the number of scans answered.
RaceDuplicatesLog ==
  \A p, q \in Procs :
    BothFirstScan(p, q) =>
      LET id == procs[p].inv.id
      IN \/ Cardinality(LogRows(checkins, id)) > 1
         \/ \E c \in LogRows(checkins, id) : c.scan_count # scans[id]

\* C16 witness: two scans were answered, both as first check-in, and the
\* invitation has two log rows of scan_count 1.
RaceDuplicateSeen ==
  \E p, q \in Procs :
    /\ BothFirstScan(p, q)
    /\ scans[procs[p].inv.id] = 2
    /\ resp.op = "checkin" /\ resp.status = 200 /\ resp.first
    /\ Cardinality(LogRows(checkins, procs[p].inv.id)) = 2
    /\ \A c \in LogRows(checkins, procs[p].inv.id) : c.scan_count = 1

\* C17: the summary of a store with no invitation has the number 0 in every
\* field (NULL stands for null or undefined).
EmptySummaryIsZero ==
  (resp.op = "summary" /\ invitations = {}) =>
    LET b == resp.body
    IN /\ b.totalUndangan = 0 /\ b.totalTamu = 0
       /\ b.checkedInUndangan = 0 /\ b.checkedInTamu = 0
       /\ b.belumCheckInUndangan = 0 /\ b.belumCheckInTamu = 0
       /\ b.digital = 0 /\ b.cetak = 0
       /\ b.confirmed.hadir = 0 /\ b.confirmed.tidak_hadir = 0
       /\ b.confirmed.belum_konfirmasi = 0
       /\ b.total = 0 /\ b.estimasi_tamu = 0

\* C17 witness: a summary was answered while the store holds no invitation.
EmptySummarySeen ==
  /\ resp.op = "summary" /\ resp.status = 200
  /\ invitations = {} /\ nextId.inv = 1
  /\ resp.body.total = 0

\* The invited and the attending guests of a set of rows, a missing quantity
\* counting as none.
RECURSIVE Invited(_)
Invited(rows) ==
  IF rows = {} THEN 0
  ELSE LET r == CHOOSE x \in rows : TRUE
       IN (IF r.qty = NULL THEN 0 ELSE r.qty) + Invited(rows \ {r})
RECURSIVE Attending(_)
Attending(rows) ==
  IF rows = {} THEN 0
  ELSE LET r == CHOOSE x \in rows : TRUE
       IN (IF r.real_qty # NULL THEN r.real_qty
           ELSE IF r.qty # NULL THEN r.qty ELSE 0) + Attending(rows \ {r})

\* C18: the summary counts the checked-in invitations, sums real_qty (else
\* qty) over them and qty over all invitations, and derives the two
\* not-yet-checked-in fields by subtraction; the request writes nothing.
SummaryCounts ==
  resp.op = "summary" =>
    LET b == resp.body
        in == {r \in invitations : r.checked_in}
    IN /\ b.totalUndangan = Cardinality(invitations)
       /\ b.checkedInUndangan = Cardinality(in)
       /\ b.checkedInTamu = Attending(in)
       /\ b.totalTamu = Invited(invitations)
       /\ b.belumCheckInUndangan = b.totalUndangan - b.checkedInUndangan
       /\ b.belumCheckInTamu = b.totalTamu - b.checkedInTamu
SummaryWritesNothing ==
  resp'.op = "summary" =>
    \A h \in SummaryHandlers :
      Summary(h) =>
        UNCHANGED <<invitations, checkins, messages, categories, nextId>>
SummaryIsCheckedInTotals == []SummaryCounts /\ [][SummaryWritesNothing]_vars

\* C18 witness: a summary over two checked-in invitations, one confirmed for 6
\* and one scanned with quantity 5, of which only one has an invited quantity.
TwoCheckedInSummarySeen ==
  /\ resp.op = "summary" /\ resp.status = 200
  /\ resp.body.checkedInUndangan = 2 /\ resp.body.checkedInTamu = 11
  /\ resp.body.totalTamu = 4

\* C19: a guarded route answers from its handler, with the token's claims as
\* req.user, exactly when the cookie named for its role is present, verifies
\* and carries that role; otherwise the request is rejected, a missing cookie,
\* an invalid token and a wrong role each with its own error, and a token that
\* login issued to a user of another role is rejected.
GuardedOnlyForRole ==
  [][\A role \in Roles :
       Guarded(role) =>
         LET token == cookies[CookieName(role)]
             granted == token # NoToken /\ token.ok /\ token.role = role
         IN /\ resp'.status = 200 <=> granted
            /\ granted => resp'.user = token
            /\ ~granted => resp'.user = NoToken
            /\ token = NoToken =>
                 resp'.status = 401 /\ resp'.message = "Tidak ada token"
            /\ (token # NoToken /\ ~token.ok) =>
                 resp'.status = 401 /\ resp'.message = "Token tidak valid"
            /\ (token # NoToken /\ token.ok /\ token.role # role) =>
                 resp'.status = 403 /\ resp'.message = "Akses ditolak"
            /\ \A u \in Users :
                 (u.role # role /\ Sign(u) \in {cookies[c] : c \in CookieNames})
                   => (resp'.status = 200 => resp'.user # Sign(u))]_vars

\* C19 witness: the token login issued to the client was sent under the
\* user cookie to the user route and was refused for its role.
CrossRoleRefusedSeen ==
  /\ resp.op = "data" /\ resp.status = 403
  /\ cookies["token_user"] \in {Sign(u) : u \in {x \in Users : x.role = "client"}}
  /\ cookies["token_client"] = NoToken

\* C20: an invitation keeps the slug it was created with for as long as the
\* row exists, under full update, delivery-status update, RSVP update,
\* check-in and message operations.
SlugNeverChanges ==
  [][\A r \in invitations :
       HasRow(invitations', r.id) => Row(invitations', r.id).slug = r.slug]_vars

\* C20 witness: an invitation that was fully updated through the guest
\* router, marked as delivered, answered 'Hadir' and scanned is still found
\* under the slug requests address.
SlugSurvivorSeen ==
  \E r \in invitations :
    /\ r.slug \in Slugs /\ r.type = "vip" /\ r.status_pengiriman = "terkirim"
    /\ r.rsvp_status = "Hadir" /\ r.checked_in
    /\ \E m \in messages : m.invitation_id = r.id

\* C21: real_qty is null from creation on, and only an RSVP update or a
\* check-in turns it non-null: creation, full update, delivery-status update
\* and the message operations never do.
RealQtySetOnlyByRsvpOrCheckin ==
  [][\A r \in invitations' :
       ( /\ r.real_qty # NULL
         /\ HasRow(invitations, r.id) => Row(invitations, r.id).real_qty = NULL )
       => resp'.op \in {"kehadiran", "checkin"}]_vars

\* C21 witness: an invitation that was fully updated through the guest
\* router, marked as sent and as delivered and wished well, and whose
\* real_qty is still null.
RealQtyStillNullSeen ==
  \E r \in invitations :
    /\ r.slug \in Slugs /\ r.type = "vip" /\ r.is_sent
    /\ r.status_pengiriman = "terkirim"
    /\ \E m \in messages : m.invitation_id = r.id
    /\ r.real_qty = NULL /\ r.qty = 4

\* The caption an invitation list or detail shows is the text of the active
\* caption of the invitation's category with the greatest id, null when the
\* category has no active caption.
ListedCaptionIsLatestActive ==
  [][resp'.op \in {"detail", "list", "guest_list"} /\ resp'.status = 200 =>
       \A row \in resp'.rows :
         LET act == {c \in captions :
                       c.category_id = row.category /\ c.is_active}
         IN IF act = {} THEN row.caption_text = NullStr
            ELSE \E c \in act :
                   /\ c.caption_text = row.caption_text
                   /\ \A d \in act : d.id <= c.id]_vars

\* C22: every caption lookup returns the active caption of the category with
\* the greatest identifier: the caption-by-category endpoint answers with
\* that row, never with an inactive or an older active one.
CaptionIsLatestActive ==
  [][resp'.op = "caption_get" /\ resp'.status = 200 =>
       /\ resp'.caption \in captions
       /\ resp'.caption.is_active
       /\ \A d \in captions :
            d.category_id = resp'.caption.category_id /\ d.is_active
              => d.id <= resp'.caption.id]_vars

\* The caption-by-category endpoint never answers with an inactive caption
\* or one of another category.
CaptionIsActive ==
  [][resp'.op = "caption_get" /\ resp'.status = 200 =>
       /\ resp'.caption \in captions
       /\ resp'.caption.is_active]_vars

\* One turn of the bounded generator: it writes nothing, and it either
\* returns a candidate its query did not find, or counts one more collision
\* below maxAttempts, or, on the last attempt, ends the request with an error.
BoundedGeneratorStep ==
  [][\A p \in Procs :
       build = "B" /\ procs[p].pc = "gen" /\ procs'[p] # procs[p] =>
         /\ invitations' = invitations /\ nextId' = nextId
         /\ \/ /\ procs'[p].pc = "insert"
               /\ procs'[p].slug \in Candidates("B", GuestName)
               /\ ~SlugExists(invitations, procs'[p].slug)
            \/ /\ procs'[p].pc = "gen"
               /\ procs'[p].attempt = procs[p].attempt + 1
               /\ procs'[p].attempt < maxAttempts
            \/ /\ procs'[p].pc = "idle"
               /\ procs[p].attempt = maxAttempts - 1
               /\ resp'.op = "create" /\ resp'.status = 500]_vars

\* C23: the bounded generator ends after at most maxAttempts queries, either
\* with a candidate that was absent when it was queried or with an error
\* that leaves the request without an insert; it writes nothing itself.
BoundedGeneratorTerminates ==
  /\ BoundedGeneratorStep
  /\ \A p \in Procs :
       (build = "B" /\ procs[p].pc = "gen") ~> (procs[p].pc # "gen")

\* C23 witness: with a candidate taken, a creation request of the bounded
\* generator was answered with the error of five collisions, and no row was
\* added for it.
BoundedGeneratorFailedSeen ==
  /\ build = "B" /\ resp.op = "create" /\ resp.status = 500
  /\ Cardinality(invitations) = 1 /\ nextId.inv = 2
  /\ \A p \in Procs : procs[p].pc = "idle"

\* C24: the unbounded generator never returns a slug its last query found in
\* the store; with fair draws a request in the generator leaves it unless
\* every candidate gets taken; and while every candidate is taken it stays in
\* its loop.
UnboundedGeneratorReturnsFree ==
  /\ [][\A p \in Procs :
          build = "A" /\ procs[p].pc = "gen" =>
            /\ procs'[p].pc \in {"gen", "insert"}
            /\ procs'[p].pc = "insert" =>
                 /\ procs'[p].slug \in Candidates("A", GuestName)
                 /\ ~SlugExists(invitations, procs'[p].slug)
                 /\ invitations' = invitations
            /\ AllTaken => procs'[p] = procs[p]]_vars
  /\ \A p \in Procs :
       (build = "A" /\ procs[p].pc = "gen") ~> (procs[p].pc # "gen" \/ AllTaken)

\* C24 witness: every candidate was returned once and inserted, and a
\* further creation request is in the generator's loop.
UnboundedGeneratorSpinsSeen ==
  /\ build = "A" /\ AllTaken
  /\ Cardinality(invitations) = MaxRand
  /\ \E p \in Procs : procs[p].pc = "gen"

\* C25: after a repeat scan the log row holds the latest scan's values:
\* checked_in_qty is the quantity resolved for this scan (0 when none
\* resolves) and device_note is this scan's note, null when it carries none.
RepeatScanOverwritesLog ==
  [][\A inv \in invitations, q \in {Absent, Num(3)}, n \in DeviceNotes :
       (/\ resp'.op = "checkin" /\ resp'.status = 200
        /\ LogRows(checkins, inv.id) # {}
        /\ scans'[inv.id] # scans[inv.id]
        /\ Checkin(build, inv.slug, q, n))
         => \A c \in LogRows(checkins', inv.id) :
              /\ c.scan_count >= 2
              /\ c.device_note = n
              /\ c.checked_in_qty = Nullish(Resolved(inv, q), 0)]_vars

\* Under variant A the log row of a repeat scan holds the latest scan's
\* values.
RepeatScanOverwritesLogA ==
  [][\A inv \in invitations, q \in {Absent, Num(3)}, n \in DeviceNotes :
       (/\ build = "A"
        /\ resp'.op = "checkin" /\ resp'.status = 200
        /\ LogRows(checkins, inv.id) # {}
        /\ scans'[inv.id] # scans[inv.id]
        /\ Checkin(build, inv.slug, q, n))
         => \A c \in LogRows(checkins', inv.id) :
              /\ c.scan_count >= 2
              /\ c.device_note = n
              /\ c.checked_in_qty = Nullish(Resolved(inv, q), 0)]_vars

\* Every invitation's rsvp_status is one of the three values of the enum.
RsvpInEnum == \A r \in invitations : r.rsvp_status \in RsvpEnum

\* C26: in every reachable state each invitation's rsvp_status is one of
\* 'Belum Konfirmasi', 'Hadir', 'Tidak Hadir'; an RSVP update whose status is
\* missing or outside the three is answered 400 and changes no row.
RsvpAlwaysInEnum ==
  /\ []RsvpInEnum
  /\ [][resp'.op = "kehadiran" =>
          /\ resp'.status = 400 => invitations' = invitations
          /\ \A s \in Slugs, st \in RsvpIn \ RsvpEnum :
               Kehadiran(build, s, st, Absent) =>
                 resp'.status = 400 /\ invitations' = invitations]_vars

\* C26 witness: an invitation answered 'Hadir', then an RSVP update with a
\* status outside the enum was answered 400 and the answer is still 'Hadir'.
RsvpRejectedSeen ==
  /\ resp.op = "kehadiran" /\ resp.status = 400
  /\ \E r \in invitations :
       r.slug \in Slugs /\ r.rsvp_status = "Hadir" /\ r.real_qty = 6

\* C27: a delivery-status update with neither flag is answered 400 and
\* changes nothing; with a flag it is answered 404 exactly when no invitation
\* has the slug and 200 otherwise, also when the flag already holds the
\* value; only the supplied flags of the addressed row change, and nothing
\* of its RSVP state, its check-in state or the check-in log.
StatusRoute ==
  [][resp'.op = "status" =>
       \A s \in StatusSlugs, a \in FlagIn, b \in FlagIn :
         Status(s, a, b) =>
           /\ checkins' = checkins
           /\ IF a = Absent /\ b = Absent
                THEN resp'.status = 400
                ELSE /\ resp'.status = 404 <=> ~SlugExists(invitations, s)
                     /\ resp'.status = 200 <=> SlugExists(invitations, s)
           /\ resp'.status # 200 => invitations' = invitations
           /\ \A r \in invitations :
                /\ HasRow(invitations', r.id)
                /\ r.slug # s => Row(invitations', r.id) = r
                /\ LET u == Row(invitations', r.id)
                   IN /\ [u EXCEPT !.is_sent = r.is_sent,
                                   !.is_copied = r.is_copied] = r
                      /\ a = Absent => u.is_sent = r.is_sent
                      /\ b = Absent => u.is_copied = r.is_copied
                      /\ resp'.status = 200 /\ r.slug = s =>
                           /\ a # Absent => u.is_sent = (a = True)
                           /\ b # Absent => u.is_copied = (b = True)]_vars

\* C27 witness: on an invitation answered 'Hadir' and checked in, with
\* is_sent set and is_copied not, an update supplying is_sent alone with the
\* value it holds was answered 200 and the row is as it was.
StatusSameValueSeen ==
  /\ resp.op = "status" /\ resp.status = 200
  /\ \E r \in invitations :
       /\ r.slug \in Slugs /\ r.is_sent /\ ~r.is_copied
       /\ r.rsvp_status = "Hadir" /\ r.real_qty = 6 /\ r.checked_in

\* C28: the not-yet-checked-in fields of every summary are non-negative and
\* bounded by their totals: 0 <= belumCheckInUndangan <= totalUndangan and
\* 0 <= belumCheckInTamu <= totalTamu.
SummaryBelumBounded ==
  resp.op = "summary" =>
    /\ resp.body.belumCheckInUndangan \in 0 .. resp.body.totalUndangan
    /\ resp.body.belumCheckInTamu \in 0 .. resp.body.totalTamu

\* The invitation count of the two holds its bounds.
SummaryBelumUndanganBounded ==
  resp.op = "summary" =>
    resp.body.belumCheckInUndangan \in 0 .. resp.body.totalUndangan

\* While no check-in is in progress an invitation is checked in exactly when
\* a log row with scan_count >= 1 exists for it.
CheckedInIffLogRow ==
  NoScanInProgress =>
    \A r \in invitations :
      r.checked_in <=> \E c \in LogRows(checkins, r.id) : c.scan_count >= 1

\* A check-in is answered 'first check-in' exactly when the scan_count it
\* returns is 1.
FirstIffScanCountOne ==
  resp.op = "checkin" /\ resp.status = 200 => (resp.first <=> resp.scan_count = 1)

\* C29: whenever no check-in request is in progress, an invitation has
\* checked_in = true exactly when a log row with scan_count >= 1 exists for
\* it, also after a request that a storage error ended between its log write
\* and its invitation update; and 'first check-in' is answered exactly when
\* the returned scan_count is 1.
CheckedInMatchesLog == CheckedInIffLogRow /\ FirstIffScanCountOne

\* C30: the standalone summary router and the /summary route of the
\* invitation router compute equal payloads from every state of the
\* invitations table.
SummariesAgree == SummaryRouter(invitations) = SummaryStandalone(invitations)

\* C30 witness: a summary was answered over a table with a digital and a
\* printed invitation, one answered 'Hadir' and one 'Tidak Hadir', one of
\* them checked in, and it is the payload of either handler.
SummariesAgreeSeen ==
  /\ resp.op = "summary"
  /\ resp.body = SummaryRouter(invitations)
  /\ resp.body = SummaryStandalone(invitations)
  /\ resp.body.digital = 1 /\ resp.body.cetak = 1
  /\ resp.body.confirmed.hadir = 1 /\ resp.body.confirmed.tidak_hadir = 1
  /\ resp.body.checkedInUndangan = 1 /\ resp.body.checkedInTamu > resp.body.totalTamu

====
